---- MODULE Spec2Model ----
(***************************************************************************)
(* Model of scripts/train_tiny_mnist.py: the function main(args), i.e. the *)
(* training-loop controller with its try / except KeyboardInterrupt /      *)
(* finally structure.                                                      *)
(*                                                                         *)
(* One action per statement (or per small run of statements without        *)
(* observable effect in between).  pc names the statement that is about to *)
(* execute.  The external collaborators (model, optimizer, wandb, torch    *)
(* serialization) are modelled by the effects main can observe: counters   *)
(* of the updates applied, the files written, the session calls made.      *)
(*                                                                         *)
(* Environment: a KeyboardInterrupt may be delivered once, before or       *)
(* inside any statement; any statement that calls into a collaborator may  *)
(* raise an ordinary exception ("RuntimeError" stands for all of them).    *)
(* An assignment statement  x = f(...)  is one step: the interrupt lands   *)
(* inside f (x is not bound) or after the assignment.                      *)
(***************************************************************************)
EXTENDS Integers, Sequences, FiniteSets, TLC

\* ---------------------------------------------------------------- bounds
MaxIterations == 3
MaxRate == 2            \* args.log_rate, args.checkpoint_rate range over 1..MaxRate
NumTestBatches == 1     \* len(test_loader)
TestBatchLoss == 1      \* loss.item() of every batch of test_loader
EarlierIteration == 2   \* the iteration at which the run resumed from was saved
TrainBatches == 2       \* batches in one pass over the training DataLoader

\* ------------------------------------------------------ program constants
num_labels == 2         \* also the number of samples drawn per evaluation

VARIABLES
    pc,              \* the statement about to execute
    args,            \* the argparse namespace (never modified by main)
    diffusion,       \* the model: built?, loaded?, mode, params / ema versions
    optimizer,       \* the optimizer: built?, loaded?, steps applied, grads
    wandb_runner,    \* the local variable: "unbound" or "run"
    session,         \* wandb: sessions opened, watched?, finish() calls, records
    loaders,         \* train_loader / test_loader: built?, the cycle's position
    iteration,       \* the loop variable (0 before the loop)
    loss,            \* the local variable loss (as loss.item())
    acc_train_loss,  \* the running loss accumulator, a fraction
    test_loss,       \* the local variable test_loss, a fraction
    test_idx,        \* batches of test_loader consumed by the current pass
    files,           \* checkpoint artifacts under args.log_dir
    exc,             \* the exception in flight ("none" if none)
    interrupt,       \* whether / where the KeyboardInterrupt was delivered
    trace            \* every observable call main has made, in order

vars == <<pc, args, diffusion, optimizer, wandb_runner, session, loaders,
          iteration, loss, acc_train_loss, test_loss, test_idx, files, exc,
          interrupt, trace>>

\* ------------------------------------------------------------- fractions
\* Python's true division, kept exact: a value is num / den.
Frac(n, d) == [num |-> n, den |-> d]

FracAdd(f, n) == [num |-> f.num + n * f.den, den |-> f.den]

FracDiv(f, k) == [num |-> f.num, den |-> f.den * k]

FracEq(f, g) == f.num * g.den = g.num * f.den

FracIsZero(f) == f.num = 0

\* ---------------------------------------------------------------- inputs
\* The values loss.item() takes in training: strictly positive, two of them
\* so that sums tell the iterations apart.
Losses == {1, 2}

Names == {"None", "aigc-ddpm"}

Paths == {"None", "ckpt.pth"}

ArgSpace ==
    [log_to_wandb : BOOLEAN,
     project_name : Names,
     iterations : 0..MaxIterations,
     log_rate : 1..MaxRate,
     checkpoint_rate : 1..MaxRate,
     model_checkpoint : Paths,
     optim_checkpoint : Paths]

\* What log_dir holds when a resumed run starts, if the checkpoint it resumes
\* from was written by an earlier run with the same log_dir, project_name and
\* run_name: that run's pair of artifacts (lines 128-132 of the earlier run).
EarlierFiles ==
    {[kind |-> k, it |-> EarlierIteration, complete |-> TRUE,
      params |-> EarlierIteration, steps |-> EarlierIteration,
      run |-> "earlier"] : k \in {"model", "optim"}}

\* The run is given a checkpoint to resume from (lines 36, 38).
Resumed == args.model_checkpoint # "None" \/ args.optim_checkpoint # "None"

\* ---------------------------------------------------------------- events
\* An entry of trace: what happened, in which iteration, at which statement.
Ev(e, v) == [ev |-> e, it |-> iteration, val |-> v, at |-> pc]

Count(e) == Len(SelectSeq(trace, LAMBDA x : x.ev = e))

CountAt(e, k) == Len(SelectSeq(trace, LAMBDA x : x.ev = e /\ x.it = k))

\* ------------------------------------------------------------------ Init
Init ==
    /\ pc = "mkdir"
    /\ args \in ArgSpace
    /\ diffusion = [built |-> FALSE, loaded |-> FALSE, mode |-> "none",
                    params |-> 0, ema |-> 0]
    /\ optimizer = [built |-> FALSE, loaded |-> FALSE, steps |-> 0,
                    grads |-> "none"]
    /\ wandb_runner = "unbound"
    /\ session = [opens |-> 0, watched |-> FALSE, finishes |-> 0,
                  records |-> <<>>]
    /\ loaders = [built |-> FALSE, cursor |-> 0, passes |-> 0]
    /\ iteration = 0
    /\ loss = 0
    /\ acc_train_loss = Frac(0, 1)
    /\ test_loss = Frac(0, 1)
    /\ test_idx = 0
    /\ files \in IF Resumed THEN {{}, EarlierFiles} ELSE {{}}
    /\ exc = "none"
    /\ interrupt = [delivered |-> FALSE, at |-> "none", pos |-> 0]
    /\ trace = <<>>

\* ---------------------------------------------------------------- frames
modelVars == <<diffusion, optimizer>>

wandbVars == <<wandb_runner, session>>

loopVars == <<iteration, loss, acc_train_loss, test_loss, test_idx>>

envVars == <<args, files, interrupt>>

Log(e, v) == trace' = Append(trace, Ev(e, v))

\* ------------------------------------------------- lines 24-25: before try
\* file_utils.mkdir(args.log_dir)
Mkdir ==
    /\ pc = "mkdir"
    /\ pc' = "get_diffusion"
    /\ UNCHANGED <<modelVars, wandbVars, loopVars, envVars, loaders, exc, trace>>

\* ------------------------------------------------ lines 28-39: model setup
\* diffusion = script_utils.get_diffusion_from_args(...).to(device)
GetDiffusion ==
    /\ pc = "get_diffusion"
    /\ pc' = "make_optimizer"
    /\ diffusion' = [diffusion EXCEPT !.built = TRUE, !.mode = "train"]
    /\ Log("get_diffusion", 0)
    /\ UNCHANGED <<optimizer, wandbVars, loopVars, envVars, loaders, exc>>

\* optimizer = torch.optim.Adam(diffusion.parameters(), lr=...)
MakeOptimizer ==
    /\ pc = "make_optimizer"
    /\ pc' = "load_model"
    /\ optimizer' = [optimizer EXCEPT !.built = TRUE]
    /\ Log("make_optimizer", 0)
    /\ UNCHANGED <<diffusion, wandbVars, loopVars, envVars, loaders, exc>>

\* if args.model_checkpoint is not None: diffusion.load_state_dict(...)
LoadModel ==
    /\ pc = "load_model"
    /\ pc' = "load_optim"
    /\ IF args.model_checkpoint # "None"
         THEN /\ diffusion' = [diffusion EXCEPT !.loaded = TRUE]
              /\ Log("load_model", 0)
         ELSE UNCHANGED <<diffusion, trace>>
    /\ UNCHANGED <<optimizer, wandbVars, loopVars, envVars, loaders, exc>>

\* if args.optim_checkpoint is not None: optimizer.load_state_dict(...)
LoadOptim ==
    /\ pc = "load_optim"
    /\ pc' = "check_logging"
    /\ IF args.optim_checkpoint # "None"
         THEN /\ optimizer' = [optimizer EXCEPT !.loaded = TRUE]
              /\ Log("load_optim", 0)
         ELSE UNCHANGED <<optimizer, trace>>
    /\ UNCHANGED <<diffusion, wandbVars, loopVars, envVars, loaders, exc>>

\* ---------------------------------------------- lines 41-51: wandb session
\* Variant of CheckLogging: the project name is validated first, before the
\* model is built (the check of lines 41-43 moved above line 28).
CheckLogging_early ==
    /\ pc \in {"get_diffusion", "check_logging"}
    /\ IF args.log_to_wandb /\ args.project_name = "None"
         THEN /\ exc' = "ValueError"
              /\ pc' = "finally"
              /\ Log("raise", 0)
         ELSE /\ pc = "check_logging"
              /\ pc' = IF args.log_to_wandb THEN "wandb_init" ELSE "make_loaders"
              /\ UNCHANGED <<exc, trace>>
    /\ UNCHANGED <<modelVars, wandbVars, loopVars, envVars, loaders>>

\* if args.log_to_wandb: if args.project_name is None: raise ValueError(...)
CheckLogging ==
    /\ pc = "check_logging"
    /\ IF args.log_to_wandb
         THEN IF args.project_name = "None"
                THEN /\ exc' = "ValueError"
                     /\ pc' = "finally"
                     /\ Log("raise", 0)
                ELSE /\ pc' = "wandb_init"
                     /\ UNCHANGED <<exc, trace>>
         ELSE /\ pc' = "make_loaders"
              /\ UNCHANGED <<exc, trace>>
    /\ UNCHANGED <<modelVars, wandbVars, loopVars, envVars, loaders>>

\* wandb_runner = wandb.init(project=..., entity=..., config=..., name=...)
WandbInit ==
    /\ pc = "wandb_init"
    /\ pc' = "wandb_watch"
    /\ wandb_runner' = "run"
    /\ session' = [session EXCEPT !.opens = @ + 1]
    /\ Log("open", 0)
    /\ UNCHANGED <<modelVars, loopVars, envVars, loaders, exc>>

\* wandb.watch(diffusion)
WandbWatch ==
    /\ pc = "wandb_watch"
    /\ pc' = "make_loaders"
    /\ session' = [session EXCEPT !.watched = TRUE]
    /\ Log("watch", 0)
    /\ UNCHANGED <<modelVars, wandb_runner, loopVars, envVars, loaders, exc>>

\* ----------------------------------------- lines 53-69: data, accumulator
\* train_dataset, test_dataset, train_loader, test_loader; acc_train_loss = 0
MakeLoaders ==
    /\ pc = "make_loaders"
    /\ pc' = "for"
    /\ loaders' = [loaders EXCEPT !.built = TRUE]
    /\ acc_train_loss' = Frac(0, 1)
    /\ Log("make_loaders", 0)
    /\ UNCHANGED <<modelVars, wandbVars, iteration, loss, test_loss, test_idx,
                   envVars, exc>>

\* --------------------------------------------- lines 71-91: one iteration
\* for iteration in range(1, args.iterations + 1):
ForHead ==
    /\ pc = "for"
    /\ IF iteration < args.iterations
         THEN /\ iteration' = iteration + 1
              /\ pc' = "next_batch"
         ELSE /\ pc' = "finish"
              /\ UNCHANGED iteration
    /\ UNCHANGED <<modelVars, wandbVars, loss, acc_train_loss, test_loss,
                   test_idx, envVars, loaders, exc, trace>>

\* script_utils.cycle: next() on the cyclic source.  It yields the next batch
\* of the current pass over the DataLoader and, when the pass is exhausted,
\* starts a new (reshuffled) pass instead of signalling exhaustion.
Cycle(ld) ==
    IF ld.cursor = TrainBatches
      THEN [ld EXCEPT !.cursor = 1, !.passes = @ + 1]
      ELSE [ld EXCEPT !.cursor = @ + 1]

\* Variant of NextBatch: train_loader is the plain DataLoader iterator, without
\* script_utils.cycle; next() raises StopIteration once the pass is exhausted.
NextBatch_noCycle ==
    /\ pc = "next_batch"
    /\ diffusion' = [diffusion EXCEPT !.mode = "train"]
    /\ IF loaders.cursor = TrainBatches
         THEN /\ pc' = "finally"
              /\ exc' = "StopIteration"
              /\ Log("StopIteration", 0)
              /\ UNCHANGED loaders
         ELSE /\ pc' = "forward"
              /\ loaders' = [loaders EXCEPT !.cursor = @ + 1]
              /\ Log("next_batch", 0)
              /\ UNCHANGED exc
    /\ UNCHANGED <<optimizer, wandbVars, loopVars, envVars>>

\* diffusion.train(); x, y = next(train_loader); x.to(device); y.to(device)
NextBatch ==
    /\ pc = "next_batch"
    /\ pc' = "forward"
    /\ diffusion' = [diffusion EXCEPT !.mode = "train"]
    /\ loaders' = Cycle(loaders)
    /\ Log("next_batch", 0)
    /\ UNCHANGED <<optimizer, wandbVars, loopVars, envVars, exc>>

\* loss = diffusion(x, y) | diffusion(x); print(...); acc_train_loss += loss.item()
Forward ==
    /\ pc = "forward"
    /\ pc' = "zero_grad"
    /\ \E l \in Losses :
         /\ loss' = l
         /\ acc_train_loss' = FracAdd(acc_train_loss, l)
         /\ Log("forward", l)
    /\ UNCHANGED <<modelVars, wandbVars, iteration, test_loss, test_idx,
                   envVars, loaders, exc>>

\* optimizer.zero_grad()
ZeroGrad ==
    /\ pc = "zero_grad"
    /\ pc' = "backward"
    /\ optimizer' = [optimizer EXCEPT !.grads = "zero"]
    /\ Log("zero_grad", 0)
    /\ UNCHANGED <<diffusion, wandbVars, loopVars, envVars, loaders, exc>>

\* loss.backward()
Backward ==
    /\ pc = "backward"
    /\ pc' = "optimizer_step"
    /\ optimizer' = [optimizer EXCEPT !.grads = "set"]
    /\ Log("backward", 0)
    /\ UNCHANGED <<diffusion, wandbVars, loopVars, envVars, loaders, exc>>

\* optimizer.step()
\* Variant of OptimizerStep: gradients are accumulated and the optimizer
\* steps on every second iteration only.
OptimizerStep_accumulate ==
    /\ pc = "optimizer_step"
    /\ pc' = "update_ema"
    /\ IF iteration % 2 = 0
         THEN /\ optimizer' = [optimizer EXCEPT !.steps = @ + 1]
              /\ diffusion' = [diffusion EXCEPT !.params = @ + 1]
         ELSE UNCHANGED <<optimizer, diffusion>>
    /\ Log("step", 0)
    /\ UNCHANGED <<wandbVars, loopVars, envVars, loaders, exc>>

\* optimizer.step()
OptimizerStep ==
    /\ pc = "optimizer_step"
    /\ pc' = "update_ema"
    /\ optimizer' = [optimizer EXCEPT !.steps = @ + 1]
    /\ diffusion' = [diffusion EXCEPT !.params = @ + 1]
    /\ Log("step", 0)
    /\ UNCHANGED <<wandbVars, loopVars, envVars, loaders, exc>>

\* diffusion.update_ema()
UpdateEma ==
    /\ pc = "update_ema"
    /\ pc' = "log_check"
    /\ diffusion' = [diffusion EXCEPT !.ema = @ + 1]
    /\ Log("ema", 0)
    /\ UNCHANGED <<optimizer, wandbVars, loopVars, envVars, loaders, exc>>

\* -------------------------------------------- lines 93-125: the evaluation
\* Variant of IsLogIteration: the cadence counted from iteration 1.
IsLogIteration_offByOne(k) == (k - 1) % args.log_rate = 0

\* iteration % args.log_rate == 0
IsLogIteration(k) == k % args.log_rate = 0

\* if iteration % args.log_rate == 0:
LogCheck ==
    /\ pc = "log_check"
    /\ pc' = IF IsLogIteration(iteration) THEN "eval_begin" ELSE "ckpt_check"
    /\ UNCHANGED <<modelVars, wandbVars, loopVars, envVars, loaders, exc, trace>>

\* test_loss = 0; with torch.no_grad(): diffusion.eval(); iter(test_loader)
EvalBegin ==
    /\ pc = "eval_begin"
    /\ pc' = "eval_batch"
    /\ test_loss' = Frac(0, 1)
    /\ test_idx' = 0
    /\ diffusion' = [diffusion EXCEPT !.mode = "eval"]
    /\ Log("eval_begin", 0)
    /\ UNCHANGED <<optimizer, wandbVars, iteration, loss, acc_train_loss,
                   envVars, loaders, exc>>

\* for x, y in test_loader: loss = diffusion(...); test_loss += loss.item()
EvalBatch ==
    /\ pc = "eval_batch"
    /\ IF test_idx < NumTestBatches
         THEN /\ pc' = "eval_batch"
              /\ test_idx' = test_idx + 1
              /\ loss' = TestBatchLoss
              /\ test_loss' = FracAdd(test_loss, TestBatchLoss)
              /\ Log("test_batch", TestBatchLoss)
         ELSE /\ pc' = "sample"
              /\ UNCHANGED <<loss, test_loss, test_idx, trace>>
    /\ UNCHANGED <<modelVars, wandbVars, iteration, acc_train_loss, envVars,
                   loaders, exc>>

\* samples = diffusion.sample(num_labels, device, ...); rescale, clip, permute
Sample ==
    /\ pc = "sample"
    /\ pc' = "average"
    /\ Log("sample", num_labels)
    /\ UNCHANGED <<modelVars, wandbVars, loopVars, envVars, loaders, exc>>

\* Variant of Average: the accumulator is divided by the iteration number.
Average_byIteration ==
    /\ pc = "average"
    /\ IF NumTestBatches = 0
         THEN /\ exc' = "RuntimeError"
              /\ pc' = "finally"
              /\ Log("RuntimeError", 0)
              /\ UNCHANGED <<test_loss, acc_train_loss>>
         ELSE /\ pc' = "wandb_log"
              /\ test_loss' = FracDiv(test_loss, NumTestBatches)
              /\ acc_train_loss' = FracDiv(acc_train_loss, iteration)
              /\ UNCHANGED <<exc, trace>>
    /\ UNCHANGED <<modelVars, wandbVars, iteration, loss, test_idx, envVars,
                   loaders>>

\* test_loss /= len(test_loader); acc_train_loss /= args.log_rate
Average ==
    /\ pc = "average"
    /\ IF NumTestBatches = 0
         THEN /\ exc' = "RuntimeError"      \* ZeroDivisionError
              /\ pc' = "finally"
              /\ Log("RuntimeError", 0)
              /\ UNCHANGED <<test_loss, acc_train_loss>>
         ELSE /\ pc' = "wandb_log"
              /\ test_loss' = FracDiv(test_loss, NumTestBatches)
              /\ acc_train_loss' = FracDiv(acc_train_loss, args.log_rate)
              /\ UNCHANGED <<exc, trace>>
    /\ UNCHANGED <<modelVars, wandbVars, iteration, loss, test_idx, envVars,
                   loaders>>

\* Variant of WandbLog: the record is emitted without testing log_to_wandb.
WandbLog_unconditional ==
    /\ pc = "wandb_log"
    /\ pc' = "reset_acc"
    /\ session' = [session EXCEPT !.records = Append(@,
          [test_loss |-> test_loss, train_loss |-> acc_train_loss,
           samples |-> num_labels])]
    /\ Log("record", 0)
    /\ UNCHANGED <<modelVars, wandb_runner, loopVars, envVars, loaders, exc>>

\* Variant of WandbLog: the losses and the samples go out in two wandb.log
\* calls.
WandbLog_separate ==
    /\ pc = "wandb_log"
    /\ pc' = "reset_acc"
    /\ IF args.log_to_wandb
         THEN /\ session' = [session EXCEPT !.records = @ \o
                    << [test_loss |-> test_loss, train_loss |-> acc_train_loss],
                       [samples |-> num_labels] >>]
              /\ Log("record", 0)
         ELSE UNCHANGED <<session, trace>>
    /\ UNCHANGED <<modelVars, wandb_runner, loopVars, envVars, loaders, exc>>

\* if args.log_to_wandb: wandb.log({test_loss, train_loss, samples})
WandbLog ==
    /\ pc = "wandb_log"
    /\ pc' = "reset_acc"
    /\ IF args.log_to_wandb
         THEN /\ session' = [session EXCEPT !.records = Append(@,
                    [test_loss |-> test_loss, train_loss |-> acc_train_loss,
                     samples |-> num_labels])]
              /\ Log("record", 0)
         ELSE UNCHANGED <<session, trace>>
    /\ UNCHANGED <<modelVars, wandb_runner, loopVars, envVars, loaders, exc>>

\* Variant of ResetAcc: line 124 indented into the "if args.log_to_wandb" block.
ResetAcc_onlyWhenLogging ==
    /\ pc = "reset_acc"
    /\ pc' = "ckpt_check"
    /\ acc_train_loss' = IF args.log_to_wandb THEN Frac(0, 1) ELSE acc_train_loss
    /\ Log("reset", 0)
    /\ UNCHANGED <<modelVars, wandbVars, iteration, loss, test_loss, test_idx,
                   envVars, loaders, exc>>

\* acc_train_loss = 0; print(test loss)
ResetAcc ==
    /\ pc = "reset_acc"
    /\ pc' = "ckpt_check"
    /\ acc_train_loss' = Frac(0, 1)
    /\ Log("reset", 0)
    /\ UNCHANGED <<modelVars, wandbVars, iteration, loss, test_loss, test_idx,
                   envVars, loaders, exc>>

\* ------------------------------------------- lines 127-132: the checkpoint
\* iteration % args.checkpoint_rate == 0
IsCheckpointIteration(k) == k % args.checkpoint_rate = 0

\* The artifact torch.save leaves at the path named by (kind, iteration);
\* log_dir, project_name and run_name are fixed during a run.  A path holds
\* one file: a write replaces what was there.
Artifact(kind, k, whole) ==
    [kind |-> kind, it |-> k, complete |-> whole,
     params |-> diffusion.params, steps |-> optimizer.steps, run |-> "this"]

\* Variant of WriteFile: the file name leaves out the iteration number.
WriteFile_noIteration(fs, kind, k, whole) ==
    {f \in fs : f.kind # kind} \cup {Artifact(kind, 0, whole)}

WriteFile(fs, kind, k, whole) ==
    {f \in fs : ~(f.kind = kind /\ f.it = k)} \cup {Artifact(kind, k, whole)}

\* if iteration % args.checkpoint_rate == 0:
CkptCheck ==
    /\ pc = "ckpt_check"
    /\ pc' = IF IsCheckpointIteration(iteration) THEN "save_model" ELSE "for"
    /\ UNCHANGED <<modelVars, wandbVars, loopVars, envVars, loaders, exc, trace>>

\* model_filename = ...; optim_filename = ...; torch.save(diffusion.state_dict(), model_filename)
SaveModel ==
    /\ pc = "save_model"
    /\ pc' = "save_optim"
    /\ files' = WriteFile(files, "model", iteration, TRUE)
    /\ Log("save_model", 0)
    /\ UNCHANGED <<modelVars, wandbVars, loopVars, args, interrupt, loaders, exc>>

\* Variant of SaveOptim: the optimizer state is saved under model_filename.
SaveOptim_modelPath ==
    /\ pc = "save_optim"
    /\ pc' = "for"
    /\ files' = WriteFile(files, "model", iteration, TRUE)
    /\ Log("save_optim", 0)
    /\ UNCHANGED <<modelVars, wandbVars, loopVars, args, interrupt, loaders, exc>>

\* Variant of SaveOptim: the checkpoint advances the iteration counter.
SaveOptim_advance ==
    /\ pc = "save_optim"
    /\ pc' = "for"
    /\ files' = WriteFile(files, "optim", iteration, TRUE)
    /\ iteration' = iteration + 1
    /\ Log("save_optim", 0)
    /\ UNCHANGED <<modelVars, wandbVars, loss, acc_train_loss, test_loss,
                   test_idx, args, interrupt, loaders, exc>>

\* torch.save(optimizer.state_dict(), optim_filename)
SaveOptim ==
    /\ pc = "save_optim"
    /\ pc' = "for"
    /\ files' = WriteFile(files, "optim", iteration, TRUE)
    /\ Log("save_optim", 0)
    /\ UNCHANGED <<modelVars, wandbVars, loopVars, args, interrupt, loaders, exc>>

\* ------------------------------------ lines 134-140: the end of the run
\* if args.log_to_wandb: wandb_runner.finish()      (last statement of try)
Finish ==
    /\ pc = "finish"
    /\ pc' = "finally"
    /\ IF args.log_to_wandb
         THEN /\ session' = [session EXCEPT !.finishes = @ + 1]
              /\ Log("finish", 0)
         ELSE UNCHANGED <<session, trace>>
    /\ UNCHANGED <<modelVars, wandb_runner, loopVars, envVars, loaders, exc>>

\* Variant of Except: the handler prints the notice and re-raises.
Except_reraise ==
    /\ pc = "except"
    /\ pc' = "finally"
    /\ Log("notice", 0)
    /\ UNCHANGED <<modelVars, wandbVars, loopVars, envVars, loaders, exc>>

\* Variant of Except: the handler closes the session as well.
Except_alsoFinish ==
    /\ pc = "except"
    /\ pc' = "finally"
    /\ exc' = "none"
    /\ session' = [session EXCEPT
          !.finishes = IF args.log_to_wandb /\ wandb_runner = "run"
                         THEN @ + 1 ELSE @]
    /\ Log("notice", 0)
    /\ UNCHANGED <<modelVars, wandb_runner, loopVars, envVars, loaders>>

\* except KeyboardInterrupt: print("Keyboard interrupt, run finished early")
Except ==
    /\ pc = "except"
    /\ pc' = "finally"
    /\ exc' = "none"
    /\ Log("notice", 0)
    /\ UNCHANGED <<modelVars, wandbVars, loopVars, envVars, loaders>>

\* finally:                                         (the block is entered)
Finally ==
    /\ pc = "finally"
    /\ pc' = "cleanup"
    /\ Log("finally", 0)
    /\ UNCHANGED <<modelVars, wandbVars, loopVars, envVars, loaders, exc>>

\* Variant of Cleanup: the finally block does not close the session.
Cleanup_noFinish ==
    /\ pc = "cleanup"
    /\ pc' = "done"
    /\ UNCHANGED <<modelVars, wandbVars, loopVars, envVars, loaders, exc, trace>>

\* Variant of Cleanup: the finally block closes the session only if it has
\* not been closed already.
Cleanup_onceOnly ==
    /\ pc = "cleanup"
    /\ pc' = "done"
    /\ IF args.log_to_wandb
         THEN IF wandb_runner = "unbound"
                THEN /\ exc' = "UnboundLocalError"
                     /\ Log("UnboundLocalError", 0)
                     /\ UNCHANGED session
                ELSE IF session.finishes = 0
                       THEN /\ session' = [session EXCEPT !.finishes = @ + 1]
                            /\ Log("finish", 0)
                            /\ UNCHANGED exc
                       ELSE UNCHANGED <<session, exc, trace>>
         ELSE UNCHANGED <<session, exc, trace>>
    /\ UNCHANGED <<modelVars, wandb_runner, loopVars, envVars, loaders>>

\* if args.log_to_wandb: wandb_runner.finish()      (body of finally)
\* Reading the unbound local raises UnboundLocalError, which replaces the
\* exception in flight; otherwise the exception in flight is re-raised.
Cleanup ==
    /\ pc = "cleanup"
    /\ pc' = "done"
    /\ IF args.log_to_wandb
         THEN IF wandb_runner = "unbound"
                THEN /\ exc' = "UnboundLocalError"
                     /\ Log("UnboundLocalError", 0)
                     /\ UNCHANGED session
                ELSE /\ session' = [session EXCEPT !.finishes = @ + 1]
                     /\ Log("finish", 0)
                     /\ UNCHANGED exc
         ELSE UNCHANGED <<session, exc, trace>>
    /\ UNCHANGED <<modelVars, wandb_runner, loopVars, envVars, loaders>>

\* ---------------------------------------------------------- the environment
\* The statements of the try block (lines 28-135).
TryPcs ==
    {"get_diffusion", "make_optimizer", "load_model", "load_optim",
     "check_logging", "wandb_init", "wandb_watch", "make_loaders", "for",
     "next_batch", "forward", "zero_grad", "backward", "optimizer_step",
     "update_ema", "log_check", "eval_begin", "eval_batch", "sample",
     "average", "wandb_log", "reset_acc", "ckpt_check", "save_model",
     "save_optim", "finish"}

\* The statements of one iteration of the loop (lines 72-132).
IterationPcs ==
    {"next_batch", "forward", "zero_grad", "backward", "optimizer_step",
     "update_ema", "log_check", "eval_begin", "eval_batch", "sample",
     "average", "wandb_log", "reset_acc", "ckpt_check", "save_model",
     "save_optim"}

\* Whether the statement at pc calls into a collaborator that can raise.
CallsOut ==
    \/ pc \in {"mkdir", "get_diffusion", "make_optimizer", "wandb_init",
               "wandb_watch", "make_loaders", "next_batch", "forward",
               "zero_grad", "backward", "optimizer_step", "update_ema",
               "eval_begin", "sample", "save_model", "save_optim"}
    \/ pc = "load_model" /\ args.model_checkpoint # "None"
    \/ pc = "load_optim" /\ args.optim_checkpoint # "None"
    \/ pc = "eval_batch" /\ test_idx < NumTestBatches
    \/ pc \in {"wandb_log", "finish"} /\ args.log_to_wandb
    \/ pc = "cleanup" /\ args.log_to_wandb /\ wandb_runner = "run"

\* Variant of Handler: the try / except KeyboardInterrupt sits inside the loop
\* body, so an interrupted iteration is skipped and the loop goes on.
Handler_insideLoop(e) ==
    IF pc \in TryPcs
      THEN IF e = "KeyboardInterrupt"
             THEN IF pc \in IterationPcs THEN "for" ELSE "except"
             ELSE "finally"
      ELSE "done"

\* Where control goes when the statement at pc raises e (lines 27, 136, 138):
\* inside try a KeyboardInterrupt goes to the handler and anything else to
\* finally; outside try the exception leaves main.
Handler(e) ==
    IF pc \in TryPcs
      THEN IF e = "KeyboardInterrupt" THEN "except" ELSE "finally"
      ELSE "done"

\* The statement at pc is abandoned with exception e.  "inside" says that the
\* call it makes had already taken effect when it was cut short: the session
\* was created but never bound (line 45), the file was created but not
\* completed (lines 131, 132), finish had been invoked (lines 135, 140; an
\* exception that finish itself raises always comes from inside the call).
Abandon(e, inside) ==
    LET opened == inside /\ pc = "wandb_init"
        closed == /\ pc \in {"finish", "cleanup"}
                  /\ args.log_to_wandb /\ wandb_runner = "run"
                  /\ (inside \/ e # "KeyboardInterrupt")
        wrote == inside /\ pc \in {"save_model", "save_optim"}
        kind == IF pc = "save_model" THEN "model" ELSE "optim"
        t == IF opened THEN Append(trace, Ev("open", 0))
             ELSE IF closed THEN Append(trace, Ev("finish", 0))
             ELSE IF wrote THEN Append(trace, Ev("partial", 0))
             ELSE trace
    IN  /\ session' = [session EXCEPT
                          !.opens = IF opened THEN @ + 1 ELSE @,
                          !.finishes = IF closed THEN @ + 1 ELSE @]
        /\ files' = IF wrote THEN WriteFile(files, kind, iteration, FALSE)
                             ELSE files
        /\ trace' = Append(t, Ev(e, 0))
        /\ exc' = e
        /\ pc' = Handler(e)
        /\ UNCHANGED <<modelVars, wandb_runner, loopVars, args, loaders>>

\* A KeyboardInterrupt is delivered (at most one per run).
Interrupt ==
    /\ ~interrupt.delivered
    /\ pc \in TryPcs \cup {"mkdir", "cleanup"}
    /\ \E inside \in BOOLEAN : Abandon("KeyboardInterrupt", inside)
    /\ interrupt' = [delivered |-> TRUE, at |-> pc, pos |-> Len(trace')]

\* A collaborator raises an ordinary exception.
Fail ==
    /\ CallsOut
    /\ \E inside \in BOOLEAN : Abandon("RuntimeError", inside)
    /\ UNCHANGED interrupt

\* ------------------------------------------------------ the specification
Next ==
    \/ Mkdir \/ GetDiffusion \/ MakeOptimizer \/ LoadModel \/ LoadOptim
    \/ CheckLogging \/ WandbInit \/ WandbWatch \/ MakeLoaders
    \/ ForHead \/ NextBatch \/ Forward \/ ZeroGrad \/ Backward
    \/ OptimizerStep \/ UpdateEma
    \/ LogCheck \/ EvalBegin \/ EvalBatch \/ Sample \/ Average \/ WandbLog
    \/ ResetAcc
    \/ CkptCheck \/ SaveModel \/ SaveOptim
    \/ Finish \/ Except \/ Finally \/ Cleanup
    \/ Interrupt \/ Fail

Spec == Init /\ [][Next]_vars

\* ------------------------------------------------- vocabulary of the claims
\* main has ended (returned or raised).
Done == pc = "done"

\* A collaborator raised an ordinary exception at some point of the run.
Failed == Count("RuntimeError") > 0

\* The run ended with neither interrupt nor exception of any kind.
CleanRun == Done /\ exc = "none" /\ ~interrupt.delivered /\ ~Failed

\* The interrupt was delivered while a statement of the loop body was about
\* to execute or executing (training step, evaluation or checkpoint).
InterruptedInIteration ==
    interrupt.delivered /\ interrupt.at \in IterationPcs

\* The calls that do work: training, evaluation, metric record, checkpoint.
WorkEvents ==
    {"next_batch", "forward", "zero_grad", "backward", "step", "ema",
     "eval_begin", "test_batch", "sample", "record", "reset",
     "save_model", "save_optim"}

\* The iterations of the run.
Iterations == 1..args.iterations

\* The artifacts this run has written (lines 131, 132).
OwnFiles == {f \in files : f.run = "this"}

HasFile(kind, k) ==
    \E f \in files : f.run = "this" /\ f.kind = kind /\ f.it = k

HasWholeFile(kind, k) ==
    \E f \in files : f.run = "this" /\ f.kind = kind /\ f.it = k /\ f.complete

\* ------------------------------------------------------------------- C1
\* C1: in every run in which wandb.init returned (wandb_runner is bound),
\* finish() has been called at least once when main ends, whether the run
\* completed, was interrupted, or failed.  (The one combination left out is
\* two events: a failure, followed by the interrupt landing in the finally
\* block before its call.)
C1_ClosedWhenOpened ==
    (Done /\ wandb_runner = "run" /\ ~(Failed /\ interrupt.at = "cleanup"))
        => session.finishes >= 1

\* A run with the session opened, interrupted inside an iteration.
C1_Witness ==
    /\ Done
    /\ wandb_runner = "run"
    /\ InterruptedInIteration
    /\ ~Failed
    /\ session.finishes = 1

\* ------------------------------------------------------------------- C2
\* C2: after an interrupt delivered during the running, evaluating or
\* checkpointing phase of an iteration, no training step, evaluation, metric
\* record or checkpoint write is performed; and when main ends (finish() not
\* failing) the notice has been printed once and no exception leaves main.
C2_InterruptConsumed ==
    InterruptedInIteration =>
        /\ \A i \in (interrupt.pos + 1)..Len(trace) :
               trace[i].ev \notin WorkEvents
        /\ (Done /\ ~Failed) => (exc = "none" /\ Count("notice") = 1)

\* The interrupt arrived between the two writes of a checkpoint, with
\* iterations still to run, and main returned normally.
C2_Witness ==
    /\ Done
    /\ interrupt.delivered
    /\ interrupt.at = "save_optim"
    /\ iteration < args.iterations
    /\ exc = "none"

\* ------------------------------------------------------------------- C3
\* C3: a run interrupted during an iteration enters the finally block exactly
\* once and, with logging enabled, calls finish() exactly once (and never
\* with logging disabled).
C3_OneCleanup ==
    (Done /\ InterruptedInIteration) =>
        /\ Count("finally") = 1
        /\ session.finishes = IF args.log_to_wandb THEN 1 ELSE 0
        /\ Count("finish") = session.finishes

\* Logging enabled, interrupt during the evaluation pass.
C3_Witness ==
    /\ Done
    /\ args.log_to_wandb
    /\ interrupt.delivered
    /\ interrupt.at = "eval_batch"
    /\ session.finishes = 1

\* ------------------------------------------------------------------- C4
\* C4 as stated: when the missing project name is reported, neither the model
\* nor the optimizer has been constructed and no checkpoint has been loaded.
C4_Original ==
    exc = "ValueError" =>
        /\ ~diffusion.built
        /\ ~optimizer.built
        /\ ~diffusion.loaded
        /\ ~optimizer.loaded

\* C4 amended: when the missing project name is reported, the model and the
\* optimizer have been constructed and every requested checkpoint has been
\* loaded; no logging session has been opened, no dataset or data loader has
\* been created and no iteration has started.
C4_Amended ==
    exc = "ValueError" =>
        /\ args.log_to_wandb /\ args.project_name = "None"
        /\ diffusion.built
        /\ optimizer.built
        /\ diffusion.loaded <=> args.model_checkpoint # "None"
        /\ optimizer.loaded <=> args.optim_checkpoint # "None"
        /\ session.opens = 0
        /\ wandb_runner = "unbound"
        /\ ~loaders.built
        /\ iteration = 0
        /\ Count("next_batch") = 0

\* The error is raised in a run resumed from a model checkpoint.
C4_Witness ==
    /\ exc = "ValueError"
    /\ pc = "finally"
    /\ diffusion.loaded

\* ------------------------------------------------------------------- C5
\* C5: with logging enabled and no project name, once the configuration
\* error has been raised the run ends with zero iterations, no session, no
\* checkpoint, and the ValueError is what main raises to its caller.
C5_ConfigErrorSurfaces ==
    (Done /\ Count("raise") > 0 /\ ~interrupt.delivered) =>
        /\ iteration = 0
        /\ session.opens = 0
        /\ OwnFiles = {}
        /\ exc = "ValueError"

\* ------------------------------------------------------------------- C6
\* C6: with logging disabled no session is opened, wandb_runner is never
\* bound, no record is emitted, finish() is never called and no error about
\* the project name (nor about the unbound session) is raised, whatever the
\* other arguments and however the run ends.
C6_LoggingDisabled ==
    ~args.log_to_wandb =>
        /\ session.opens = 0
        /\ ~session.watched
        /\ session.records = <<>>
        /\ session.finishes = 0
        /\ wandb_runner = "unbound"
        /\ Count("open") + Count("record") + Count("finish") = 0
        /\ exc \notin {"ValueError", "UnboundLocalError"}

\* A complete run without logging and without project name that evaluated.
C6_Witness ==
    /\ CleanRun
    /\ ~args.log_to_wandb
    /\ args.project_name = "None"
    /\ Count("eval_begin") > 0

\* ------------------------------------------------------------------- C7
\* C7: in a run that ends with neither interrupt nor failure the evaluation
\* runs exactly floor(N / L) times, once at each iteration that is a positive
\* multiple of L and at no other, and each evaluation takes every batch of
\* test_loader exactly once.  (N = args.iterations, L = args.log_rate; the
\* statement also holds for N < L, where no evaluation runs.)
C7_EvaluationCadence ==
    CleanRun =>
        /\ Count("eval_begin") = args.iterations \div args.log_rate
        /\ Count("sample") = args.iterations \div args.log_rate
        /\ CountAt("eval_begin", 0) = 0
        /\ \A k \in Iterations :
               /\ CountAt("eval_begin", k) =
                      IF k % args.log_rate = 0 THEN 1 ELSE 0
               /\ CountAt("test_batch", k) =
                      IF k % args.log_rate = 0 THEN NumTestBatches ELSE 0

\* A complete run with N >= L in which some iterations evaluate and some do not.
C7_Witness ==
    /\ CleanRun
    /\ args.log_rate > 1
    /\ args.iterations >= args.log_rate
    /\ Count("eval_begin") >= 1
    /\ Count("test_batch") >= 1

\* ------------------------------------------------------------------- C8
\* C8: in a run that ends with neither interrupt nor failure there are
\* exactly floor(N / C) checkpoint events, one at each iteration that is a
\* positive multiple of C and none for iteration 0; each writes one model and
\* one optimizer artifact named with its iteration, and 2 * floor(N / C)
\* artifacts exist at the end.  (C = args.checkpoint_rate.)
C8_CheckpointCadence ==
    CleanRun =>
        /\ Count("save_model") = args.iterations \div args.checkpoint_rate
        /\ Count("save_optim") = args.iterations \div args.checkpoint_rate
        /\ Cardinality(OwnFiles) = 2 * (args.iterations \div args.checkpoint_rate)
        /\ ~HasFile("model", 0) /\ ~HasFile("optim", 0)
        /\ \A f \in OwnFiles : f.complete /\ f.it \in Iterations
        /\ \A k \in Iterations :
               LET n == IF k % args.checkpoint_rate = 0 THEN 1 ELSE 0
               IN  /\ CountAt("save_model", k) = n
                   /\ CountAt("save_optim", k) = n
                   /\ HasFile("model", k) <=> n = 1
                   /\ HasFile("optim", k) <=> n = 1

\* A complete run with N >= C that wrote at least two checkpoints.
C8_Witness ==
    /\ CleanRun
    /\ args.iterations >= args.checkpoint_rate
    /\ Cardinality(OwnFiles) >= 4

\* ------------------------------------------------------------------- C9
\* A statement of the checkpoint of iteration k was cut short by an
\* interrupt or a failure.
CutShort(k) ==
    \E i \in 1..Len(trace) :
        /\ trace[i].ev \in {"KeyboardInterrupt", "RuntimeError"}
        /\ trace[i].at \in {"save_model", "save_optim"}
        /\ trace[i].it = k

\* Iteration k has both artifacts, complete, or none at all.
Paired(k) ==
    \/ HasWholeFile("model", k) /\ HasWholeFile("optim", k)
    \/ ~HasFile("model", k) /\ ~HasFile("optim", k)

\* C9 as stated: whenever the run has ended, every iteration that has a model
\* artifact also has its optimizer artifact and vice versa.
C9_Original ==
    Done => \A k \in 0..args.iterations :
                HasFile("model", k) <=> HasFile("optim", k)

\* C9 amended: every iteration other than one whose checkpoint event was cut
\* short has both artifacts or neither; so a run that ends by completion, or
\* by an interrupt or failure outside a checkpoint event, leaves an even
\* number of artifacts.  A checkpoint event cut short at iteration K leaves
\* K's model artifact without its optimizer artifact, or an incomplete file,
\* but never an optimizer artifact without the complete model artifact.  An
\* iteration that is not a multiple of C never has an artifact.
C9_Amended ==
    /\ \A f \in OwnFiles :
           /\ f.it \in 1..args.iterations
           /\ f.it % args.checkpoint_rate = 0
           /\ f.kind = "optim" => HasWholeFile("model", f.it)
           /\ ~Paired(f.it) =>
                  (f.it = iteration /\ (pc = "save_optim" \/ CutShort(f.it)))
    /\ (Done /\ ~CutShort(iteration)) => Cardinality(OwnFiles) % 2 = 0

\* The run ended by an interrupt between the two writes of a checkpoint,
\* after an earlier complete checkpoint.
C9_Witness ==
    /\ Done
    /\ interrupt.delivered
    /\ interrupt.at = "save_optim"
    /\ HasWholeFile("model", iteration)
    /\ ~HasFile("optim", iteration)
    /\ Cardinality(OwnFiles) = 3

\* ------------------------------------------------------------------ C10
\* C10: at the head of the loop, with k - 1 iterations finished, the running
\* loss accumulator is zero exactly when k - 1 is a multiple of L (losses
\* being strictly positive), in particular before iteration 1; it is zero
\* right after every evaluation, with or without logging; and it is zero at
\* the end of a run without interrupt or failure whenever L divides N.
C10_AccumulatorZero ==
    /\ pc = "for" =>
           (FracIsZero(acc_train_loss) <=> iteration % args.log_rate = 0)
    /\ pc = "next_batch" =>
           (FracIsZero(acc_train_loss) <=> (iteration - 1) % args.log_rate = 0)
    /\ (pc = "ckpt_check" /\ iteration % args.log_rate = 0) =>
           acc_train_loss = Frac(0, 1)
    /\ (CleanRun /\ args.iterations % args.log_rate = 0) =>
           acc_train_loss = Frac(0, 1)

\* Logging disabled: the accumulator is zero before iteration 3 with L = 2,
\* and was not zero before iteration 2.
C10_Witness ==
    /\ pc = "next_batch"
    /\ iteration = 3
    /\ args.log_rate = 2
    /\ ~args.log_to_wandb
    /\ acc_train_loss = Frac(0, 1)

\* ------------------------------------------------------------------ C11
\* C11: an artifact, once in log_dir, is never replaced or removed: every
\* step leaves every file that exists as it is, in a fresh run and in a run
\* resumed under the same log_dir, project_name and run_name.
C11_NeverOverwritten ==
    [][\A f \in files : f \in files']_vars

\* ------------------------------------------------------------------ C12
\* The statements of one iteration in program order (lines 72-132).
IterationOrder ==
    <<"next_batch", "forward", "zero_grad", "backward", "optimizer_step",
      "update_ema", "log_check", "eval_begin", "eval_batch", "sample",
      "average", "wandb_log", "reset_acc", "ckpt_check", "save_model",
      "save_optim">>

\* The positions of the statements in IterationOrder.
Position ==
    [p \in {IterationOrder[j] : j \in 1..Len(IterationOrder)} |->
         CHOOSE j \in 1..Len(IterationOrder) : IterationOrder[j] = p]

\* The position of statement p in IterationOrder.
OrderOf(p) == Position[p]

\* Statement p has done its work in iteration k.
Executed(p, k) ==
    \E n \in 1..Len(trace) :
        trace[n].at = p /\ trace[n].it = k /\ trace[n].ev \in WorkEvents

\* C12 as stated: an iteration in which the interrupt arrives still completes
\* all of its steps: the optimizer step and the EMA update, and the
\* evaluation and the checkpoint if they are due.
C12_Original ==
    (Done /\ InterruptedInIteration) =>
        /\ Executed("optimizer_step", iteration)
        /\ Executed("update_ema", iteration)
        /\ iteration % args.log_rate = 0 => Executed("reset_acc", iteration)
        /\ iteration % args.checkpoint_rate = 0 =>
               Executed("save_optim", iteration)

\* C12 amended: cancellation is preemptive.  An interrupt that arrives in the
\* middle of an iteration abandons the statement in progress, control leaves
\* the loop at once, and neither that statement nor any later statement of
\* the iteration is executed (of the evaluation pass, only the batches
\* already taken have been).
C12_Amended ==
    InterruptedInIteration =>
        /\ pc \in {"except", "finally", "cleanup", "done"}
        /\ iteration = trace[interrupt.pos].it
        /\ \A n \in 1..Len(trace) :
               (trace[n].it = iteration /\ trace[n].ev \in WorkEvents) =>
                   \/ OrderOf(trace[n].at) < OrderOf(interrupt.at)
                   \/ trace[n].at = "eval_batch" /\ interrupt.at = "eval_batch"

\* The interrupt arrived at loss.backward(): the forward pass of the
\* iteration was done, the optimizer step never happened.
C12_Witness ==
    /\ Done
    /\ interrupt.delivered
    /\ interrupt.at = "backward"
    /\ Executed("forward", iteration)
    /\ ~Executed("optimizer_step", iteration)

\* ------------------------------------------------------------------ C13
\* The position in trace of the first exception a collaborator raised.
FirstFailure ==
    CHOOSE n \in 1..Len(trace) :
        /\ trace[n].ev = "RuntimeError"
        /\ \A m \in 1..(n - 1) : trace[m].ev # "RuntimeError"

\* C13: when a collaborator raises (once, no interrupt), main ends raising
\* that same exception to its caller, nothing of the loop runs after the
\* failure, and every artifact pair completed before it is still there.
C13_FailureSurfaces ==
    (Done /\ Count("RuntimeError") = 1 /\ ~interrupt.delivered) =>
        /\ exc = "RuntimeError"
        /\ \A n \in (FirstFailure + 1)..Len(trace) :
               trace[n].ev \notin WorkEvents
        /\ \A k \in 1..iteration :
               (CountAt("save_model", k) = 1 /\ CountAt("save_optim", k) = 1)
                   => (HasWholeFile("model", k) /\ HasWholeFile("optim", k))

\* ------------------------------------------------------------------ C14
\* C14: a run that meets neither interrupt nor failure (nor configuration
\* error) ends without exception after exactly N iterations, each of which
\* pulled exactly one batch from the cyclic source; the source is never
\* exhausted, also when N exceeds the batches of one pass.
C14_BudgetExhausted ==
    /\ exc # "StopIteration"
    /\ loaders.passes * TrainBatches + loaders.cursor = Count("next_batch")
    /\ (Done /\ ~interrupt.delivered /\ ~Failed /\ Count("raise") = 0) =>
           /\ exc = "none"
           /\ iteration = args.iterations
           /\ Count("next_batch") = args.iterations
           /\ Count("forward") = args.iterations
           /\ Count("step") = args.iterations
           /\ loaders.passes * TrainBatches + loaders.cursor = args.iterations
           /\ \A k \in Iterations : CountAt("next_batch", k) = 1

\* A complete run whose budget exceeds one pass over the training set.
C14_Witness ==
    /\ CleanRun
    /\ args.iterations > TrainBatches
    /\ loaders.passes >= 1
    /\ Count("next_batch") = args.iterations

\* ------------------------------------------------------------------ C15
\* C15: with logging enabled, a run that completes all N iterations calls
\* finish() twice: first at the end of the try block, after the loop, then
\* again in the finally block; and no record is ever emitted after a call of
\* finish().
C15_DoubleClose ==
    /\ (CleanRun /\ args.log_to_wandb) =>
           /\ session.finishes = 2
           /\ Count("finish") = 2
           /\ \E i, j \in 1..Len(trace) :
                  /\ i < j
                  /\ trace[i].ev = "finish" /\ trace[i].at = "finish"
                  /\ trace[i].it = args.iterations
                  /\ trace[j].ev = "finish" /\ trace[j].at = "cleanup"
    /\ session.finishes > 0 =>
           \A j \in 1..Len(trace) :
               trace[j].ev = "record" =>
                   \A i \in 1..(j - 1) : trace[i].ev # "finish"

\* A complete run with logging that emitted a record and closed twice.
C15_Witness ==
    /\ CleanRun
    /\ args.log_to_wandb
    /\ Count("record") >= 1
    /\ session.finishes = 2

\* ------------------------------------------------------------------ C16
\* The evaluation in progress (or cut short) has emitted its record and not
\* yet reset the accumulator.
PastEmit ==
    \/ pc = "reset_acc"
    \/ \E n \in 1..Len(trace) :
           /\ trace[n].at = "reset_acc"
           /\ trace[n].ev \in {"KeyboardInterrupt", "RuntimeError"}

\* The events of the session and of the evaluations, in order: wandb.init,
\* the sampling, the record and the reset of each evaluation, finish().
SessionEvents ==
    SelectSeq(trace, LAMBDA x :
                         x.ev \in {"open", "sample", "record", "reset", "finish"})

\* The number of events e in the sequence of events s.
CountIn(s, e) == Len(SelectSeq(s, LAMBDA x : x.ev = e))

\* C16: with logging enabled, the session holds one record per wandb.log
\* call, each with test_loss, train_loss and samples together; an iteration
\* emits at most one record, only inside its evaluation, and an evaluation
\* that completes has emitted exactly one, before the accumulator is reset
\* (so train_loss is the averaged, not yet reset, accumulator).  At every
\* point the number of records is the number of evaluations that got past
\* the emit step, and every record is emitted after the session was opened
\* and before finish() is called.
C16_OneRecordPerEvaluation ==
    args.log_to_wandb =>
        LET w == SessionEvents
        IN  /\ Len(session.records) = CountIn(w, "record")
            /\ Len(session.records) =
                   CountIn(w, "reset") + (IF PastEmit THEN 1 ELSE 0)
            /\ \A n \in 1..Len(session.records) :
                   /\ DOMAIN session.records[n] =
                          {"test_loss", "train_loss", "samples"}
                   /\ session.records[n].samples = num_labels
                   /\ session.records[n].train_loss.num > 0
                   /\ session.records[n].train_loss.den = args.log_rate
            /\ \A n \in 1..Len(w) :
                   /\ w[n].ev = "record" =>
                          /\ w[n].it >= 1 /\ w[n].it % args.log_rate = 0
                          /\ n > 1 /\ w[n - 1].ev = "sample"
                          /\ w[n - 1].it = w[n].it
                          /\ \E o \in 1..(n - 1) : w[o].ev = "open"
                          /\ \A j \in 1..(n - 1) :
                                 /\ w[j].ev # "finish"
                                 /\ w[j].ev \in {"record", "reset"} =>
                                        w[j].it < w[n].it
                   /\ w[n].ev = "reset" =>
                          /\ n > 1 /\ w[n - 1].ev = "record"
                          /\ w[n - 1].it = w[n].it

\* Two evaluations have emitted their records; the second has not yet reset
\* the accumulator.
C16_Witness ==
    /\ args.log_to_wandb
    /\ pc = "reset_acc"
    /\ Len(session.records) = 2
    /\ ~FracIsZero(acc_train_loss)

\* ------------------------------------------------------------------ C17
\* The training loss of iteration i, as printed at line 83.
LossOf(i) ==
    trace[CHOOSE n \in 1..Len(trace) :
              trace[n].ev = "forward" /\ trace[n].it = i].val

RECURSIVE SumLosses(_, _)
\* The sum of the training losses of iterations lo..hi.
SumLosses(lo, hi) ==
    IF lo > hi THEN 0 ELSE LossOf(lo) + SumLosses(lo + 1, hi)

\* The mean training loss over the log_rate iterations ending with k.
WindowMean(k) ==
    Frac(SumLosses(k - args.log_rate + 1, k), args.log_rate)

\* The iterations at which the records were emitted, in order.
RecordEvents == SelectSeq(trace, LAMBDA x : x.ev = "record")

\* C17: the train_loss the evaluation of iteration k computes, and reports
\* when logging is enabled, is the sum of the training losses of iterations
\* k - L + 1 .. k divided by L; earlier iterations do not contribute.
C17_TrainLossWindow ==
    /\ pc = "wandb_log" => FracEq(acc_train_loss, WindowMean(iteration))
    /\ LET r == RecordEvents
       IN  \A n \in 1..Len(session.records) :
               FracEq(session.records[n].train_loss, WindowMean(r[n].it))

\* The second evaluation with L = 1 reports the loss of iteration 2 alone,
\* which differs from the loss of iteration 1.
C17_Witness ==
    /\ Len(session.records) = 2
    /\ args.log_rate = 1
    /\ LossOf(1) = 2
    /\ LossOf(2) = 1
    /\ session.records[2].train_loss = Frac(1, 1)

\* ------------------------------------------------------------------ C18
\* The statements of the evaluation and of the checkpoint (lines 94-132).
EvalCkptPcs ==
    {"eval_begin", "eval_batch", "sample", "average", "wandb_log",
     "reset_acc", "save_model", "save_optim"}

\* The work done so far, in the order it was done.
Work == SelectSeq(trace, LAMBDA x : x.ev \in WorkEvents)

\* Work item b may directly follow work item a: inside one iteration the
\* five training statements follow one another without gap, and what follows
\* is later in program order (the evaluation pass repeats its statement for
\* every test batch); the next iteration begins with its first statement,
\* after the evaluation and the checkpoint of this one, where due, are over.
Follows(a, b) ==
    \/ /\ b.it = a.it
       /\ IF OrderOf(a.at) < OrderOf("update_ema")
            THEN OrderOf(b.at) = OrderOf(a.at) + 1
            ELSE \/ OrderOf(b.at) > OrderOf(a.at)
                 \/ a.at = "eval_batch" /\ b.at = "eval_batch"
    \/ /\ b.it = a.it + 1
       /\ b.at = "next_batch"
       /\ OrderOf(a.at) >= OrderOf("update_ema")
       /\ IsLogIteration(a.it) => OrderOf(a.at) >= OrderOf("reset_acc")
       /\ IsCheckpointIteration(a.it) => a.at = "save_optim"

\* The last thing that happened is a statement doing its work.
JustWorked == trace # <<>> /\ trace[Len(trace)].ev \in WorkEvents

\* C18: inside each iteration the statements run in the fixed order forward,
\* gradient clear, backward, optimizer step, EMA update, evaluation (if due),
\* checkpoint (if due); while the evaluation or the checkpoint of iteration k
\* runs exactly k optimizer steps and k EMA updates have been applied; and no
\* statement of iteration k + 1 runs before they have finished.  (The order
\* of all the work done is stated each time a statement has done its work;
\* nothing else adds work to the trace.)
C18_StrictSequence ==
    /\ pc \in EvalCkptPcs =>
           /\ optimizer.steps = iteration
           /\ diffusion.params = iteration
           /\ diffusion.ema = iteration
    /\ JustWorked =>
           LET w == Work
           IN  /\ \A n \in 1..(Len(w) - 1) : Follows(w[n], w[n + 1])
               /\ w[1].it = 1 /\ w[1].at = "next_batch"

\* The checkpoint of iteration 2 is running, after the evaluation of
\* iteration 2, itself after the checkpoint of iteration 1.
C18_Witness ==
    /\ pc = "save_optim"
    /\ iteration = 2
    /\ optimizer.steps = 2
    /\ diffusion.ema = 2
    /\ Executed("sample", 2)
    /\ Executed("save_optim", 1)

\* ------------------------------------------------------------------ C19
\* The statements of the checkpoint (lines 127-132).
CkptPcs == {"ckpt_check", "save_model", "save_optim"}

\* C19: no step of a checkpoint changes the model parameters, the EMA
\* weights, the optimizer state, the running loss accumulator or the
\* iteration counter, and the loop head that follows either starts the next
\* iteration, numbered one more, or ends the loop after iteration N.
C19_CheckpointFrame ==
    [][/\ pc \in CkptPcs =>
              /\ diffusion'.params = diffusion.params
              /\ diffusion'.ema = diffusion.ema
              /\ optimizer' = optimizer
              /\ acc_train_loss' = acc_train_loss
              /\ iteration' = iteration
       /\ (pc = "for" /\ pc' = "next_batch") => iteration' = iteration + 1
       /\ (pc = "for" /\ pc' = "finish") => iteration = args.iterations
      ]_vars

\* Iteration 2 runs after the checkpoint of iteration 1 was written, with
\* one more optimizer step applied than the checkpoint recorded.
C19_Witness ==
    /\ iteration = 2
    /\ pc = "update_ema"
    /\ optimizer.steps = 2
    /\ \E f \in OwnFiles : f.kind = "optim" /\ f.it = 1 /\ f.complete /\ f.steps = 1
    /\ \E f \in OwnFiles : f.kind = "model" /\ f.it = 1 /\ f.complete /\ f.params = 1

\* ------------------------------------------------------------------ C20
\* C20: the finally block calls finish() only on a session that wandb.init
\* opened in this run; no execution, whatever interrupt or failure occurs
\* before line 45 with logging requested, makes it refer to wandb_runner
\* while wandb_runner is unbound.
C20_CleanupOnOpenedSession ==
    /\ Count("UnboundLocalError") = 0
    /\ exc # "UnboundLocalError"
    /\ Count("finish") > 0 => session.opens > 0

====
